---- MODULE Spec2Model ----
(***************************************************************************)
(* woven: the future combinators of src/src/lib.rs.                        *)
(*                                                                         *)
(* A tuple of N futures (the operands F0 .. F(N-1) of impl_combinators!,   *)
(* here numbered 1 .. N in declared order) is combined by join, by race    *)
(* or by race_same.  An external driver polls the combined future; one     *)
(* action of this module is one call of the combined future's poll, with   *)
(* every operand poll and every slot update it performs.                   *)
(*                                                                         *)
(* The operands are external.  Operand i is described by need[i], the      *)
(* number of polls it takes to return Poll::Ready (0: it stays Pending     *)
(* for ever), and val[i], the output it then returns.                      *)
(***************************************************************************)
EXTENDS Integers, Sequences, FiniteSets

\* Smallest arity impl_combinators! is instantiated for.
MinArity == 2
\* Largest arity explored (the crate goes up to 16).
MaxArity == 3
\* Largest number of polls an operand needs before it returns Ready.
MaxPolls == 2
\* Operand outputs are drawn from 1 .. MaxVal.
MaxVal == 2
\* Number of times the driver polls one combined future.
MaxCycles == 4
\* Number of calls made on the slots when they are exercised on their own.
MaxCalls == 5

VARIABLES
    N,          \* arity of the operand tuple
    need,       \* need[i]: polls operand i takes to return Ready, 0 = never
    val,        \* val[i]: output of operand i
    kind,       \* "join": the tuple was given to join;
                \* "race": equal tuples were given to race and to race_same;
                \* "slot": each operand was wrapped in a MaybeDone whose
                \* methods are called directly
    slot,       \* join: the MaybeDone fields of struct Join
    joinPolled, \* join: how often each operand future has been polled
    joinHist,   \* join: one record per call of Join::poll
    raceState,  \* race: resume point of the async fn
    racePolled, \* race: how often each operand future has been polled
    raceHist,   \* race: one record per poll of the race future
    sameState,  \* race_same: resume point of the async fn
    samePolled, \* race_same: how often each operand has been polled
    sameHist,   \* race_same: one record per poll of the race_same future
    slotHist    \* "slot": one record per call of a MaybeDone method

vars == <<N, need, val, kind, slot, joinPolled, joinHist,
          raceState, racePolled, raceHist, sameState, samePolled, sameHist,
          slotHist>>

Ops == 1 .. N

---------------------------------------------------------------------------
(* core::task::Poll, and a poll that unwinds instead of returning.        *)

Pending == [poll |-> "Pending"]

Ready(x) == [poll |-> "Ready", out |-> x]

Panic == [poll |-> "Panic"]

(* The operand futures: the p+1st poll of operand i.  Polling an operand  *)
(* again after it returned Ready is outside the Future contract; the      *)
(* combinators never do it (JoinNoRepoll, RaceSingleResolution), and here *)
(* such a poll is counted and answers Pending.                            *)
OperandPoll(i, p) ==
    IF p + 1 = need[i] THEN Ready(val[i]) ELSE Pending

---------------------------------------------------------------------------
(* enum MaybeDone                                                          *)

Future == [tag |-> "Future"]

Done(x) == [tag |-> "Done", out |-> x]

Gone == [tag |-> "Gone"]

(* MaybeDone::poll without the assignment *this = Self::Done(res): the     *)
(* slot stays Future after its operand returned Ready.                     *)
MaybeDonePollForget(s, i, p) ==
    IF s.tag = "Future"
    THEN LET r == OperandPoll(i, p)
         IN  [slot |-> s, ret |-> (r.poll = "Ready"), polled |-> p + 1,
              log |-> <<[op |-> i, res |-> r]>>]
    ELSE [slot |-> s, ret |-> TRUE, polled |-> p, log |-> <<>>]

(* MaybeDone::poll answering false on the poll that returns Ready: the     *)
(* slot is reported done only by the next call.                            *)
MaybeDonePollLate(s, i, p) ==
    IF s.tag = "Future"
    THEN LET r == OperandPoll(i, p)
         IN  [slot |-> IF r.poll = "Ready" THEN Done(r.out) ELSE s,
              ret |-> FALSE, polled |-> p + 1,
              log |-> <<[op |-> i, res |-> r]>>]
    ELSE [slot |-> s, ret |-> TRUE, polled |-> p, log |-> <<>>]

(* MaybeDone::poll storing Self::Gone for Self::Done(res): the output is   *)
(* dropped and the slot goes from Future to Gone.                          *)
MaybeDonePollDiscard(s, i, p) ==
    IF s.tag = "Future"
    THEN LET r == OperandPoll(i, p)
         IN  [slot |-> IF r.poll = "Ready" THEN Gone ELSE s,
              ret |-> (r.poll = "Ready"), polled |-> p + 1,
              log |-> <<[op |-> i, res |-> r]>>]
    ELSE [slot |-> s, ret |-> TRUE, polled |-> p, log |-> <<>>]

(* MaybeDone::poll with true returned for Self::Done only: an emptied slot *)
(* answers false.                                                          *)
MaybeDonePollGoneFalse(s, i, p) ==
    IF s.tag = "Future"
    THEN LET r == OperandPoll(i, p)
         IN  IF r.poll = "Ready"
             THEN [slot |-> Done(r.out), ret |-> TRUE, polled |-> p + 1,
                   log |-> <<[op |-> i, res |-> r]>>]
             ELSE [slot |-> s, ret |-> FALSE, polled |-> p + 1,
                   log |-> <<[op |-> i, res |-> r]>>]
    ELSE [slot |-> s, ret |-> (s.tag = "Done"), polled |-> p, log |-> <<>>]

(* MaybeDone::poll on slot s holding operand i, polled p times so far.     *)
(* ret is the bool returned; log lists the operand polls made.             *)
MaybeDonePoll(s, i, p) ==
    IF s.tag = "Future"
    THEN LET r == OperandPoll(i, p)
         IN  IF r.poll = "Ready"
             THEN [slot |-> Done(r.out), ret |-> TRUE, polled |-> p + 1,
                   log |-> <<[op |-> i, res |-> r]>>]
             ELSE [slot |-> s, ret |-> FALSE, polled |-> p + 1,
                   log |-> <<[op |-> i, res |-> r]>>]
    ELSE [slot |-> s, ret |-> TRUE, polled |-> p, log |-> <<>>]

(* MaybeDone::take_output without mem::replace(self, Self::Gone): the      *)
(* value is copied out and the slot stays Done.                            *)
take_output_keep(s) ==
    IF s.tag = "Done"
    THEN [panic |-> FALSE, out |-> s.out, slot |-> s]
    ELSE [panic |-> TRUE, slot |-> s]

(* MaybeDone::take_output without its first match: mem::replace runs       *)
(* before the variant is looked at, so a panicking call leaves Gone.       *)
take_output_unchecked(s) ==
    IF s.tag = "Done"
    THEN [panic |-> FALSE, out |-> s.out, slot |-> Gone]
    ELSE [panic |-> TRUE, slot |-> Gone]

(* MaybeDone::take_output: unreachable!() unless Done; else the value is   *)
(* moved out and Gone is left behind.                                      *)
take_output(s) ==
    IF s.tag = "Done"
    THEN [panic |-> FALSE, out |-> s.out, slot |-> Gone]
    ELSE [panic |-> TRUE, slot |-> s]

---------------------------------------------------------------------------
(* Join::poll                                                              *)

(* The statement with = for &=: done is the last slot's answer.            *)
JoinSlotStepOverwrite(st, i) ==
    LET m == MaybeDonePoll(st.slot[i], i, st.polled[i])
    IN  [slot   |-> [st.slot EXCEPT ![i] = m.slot],
         polled |-> [st.polled EXCEPT ![i] = m.polled],
         done   |-> m.ret,
         log    |-> st.log \o m.log]

(* The statement as done = done && poll: a slot after a pending one is     *)
(* not polled.                                                             *)
JoinSlotStepShortCircuit(st, i) ==
    IF st.done
    THEN LET m == MaybeDonePoll(st.slot[i], i, st.polled[i])
         IN  [slot   |-> [st.slot EXCEPT ![i] = m.slot],
              polled |-> [st.polled EXCEPT ![i] = m.polled],
              done   |-> m.ret,
              log    |-> st.log \o m.log]
    ELSE st

(* The statement in a join that gives up on a failed operand: once an      *)
(* operand has returned the output 1 in this call, the slots after it are  *)
(* not polled.                                                             *)
JoinSlotStepFailFast(st, i) ==
    IF \E k \in 1 .. Len(st.log) : st.log[k].res = Ready(1)
    THEN st
    ELSE LET m == MaybeDonePoll(st.slot[i], i, st.polled[i])
         IN  [slot   |-> [st.slot EXCEPT ![i] = m.slot],
              polled |-> [st.polled EXCEPT ![i] = m.polled],
              done   |-> (st.done /\ m.ret),
              log    |-> st.log \o m.log]

(* done &= Pin::new_unchecked(&mut this.$F).poll(cx), for one $F.          *)
JoinSlotStep(st, i) ==
    LET m == MaybeDonePoll(st.slot[i], i, st.polled[i])
    IN  [slot   |-> [st.slot EXCEPT ![i] = m.slot],
         polled |-> [st.polled EXCEPT ![i] = m.polled],
         done   |-> (st.done /\ m.ret),
         log    |-> st.log \o m.log]

(* The macro repetition of that statement, over the slots from i on.  The *)
(* state after one statement is bound to nx, which evaluates it once.      *)
RECURSIVE JoinPollSlots(_, _)
JoinPollSlots(st, i) ==
    IF i > N
    THEN st
    ELSE CHOOSE r \in {JoinPollSlots(nx, i + 1) :
                           nx \in {JoinSlotStep(st, i)}} : TRUE

(* The tuple built with its elements in the reverse of declared order.     *)
JoinTakeStepPrepend(st, i) ==
    IF st.panic
    THEN st
    ELSE LET t == take_output(st.slot[i])
         IN  IF t.panic
             THEN [st EXCEPT !.panic = TRUE]
             ELSE [slot  |-> [st.slot EXCEPT ![i] = t.slot],
                   out   |-> <<t.out>> \o st.out,
                   taken |-> Append(st.taken, i),
                   panic |-> FALSE]

(* One element this.$F.take_output() of the result tuple.  A panic ends    *)
(* the evaluation of the tuple expression.                                 *)
JoinTakeStep(st, i) ==
    IF st.panic
    THEN st
    ELSE LET t == take_output(st.slot[i])
         IN  IF t.panic
             THEN [st EXCEPT !.panic = TRUE]
             ELSE [slot  |-> [st.slot EXCEPT ![i] = t.slot],
                   out   |-> Append(st.out, t.out),
                   taken |-> Append(st.taken, i),
                   panic |-> FALSE]

(* The tuple expression of Poll::Ready, from its element i on.             *)
RECURSIVE JoinTakeAll(_, _)
JoinTakeAll(st, i) ==
    IF i > N
    THEN st
    ELSE CHOOSE r \in {JoinTakeAll(nx, i + 1) :
                           nx \in {JoinTakeStep(st, i)}} : TRUE

(* Join::poll without the test of done: the tuple expression is evaluated *)
(* after every round of polls.                                             *)
JoinPollBodyAlwaysTake(s, p) ==
    LET st == JoinPollSlots([slot |-> s, polled |-> p, done |-> TRUE,
                             log |-> <<>>], 1)
        t == JoinTakeAll([slot |-> st.slot, out |-> <<>>,
                          taken |-> <<>>, panic |-> FALSE], 1)
    IN  [slot |-> t.slot, polled |-> st.polled, log |-> st.log,
         mid |-> [i \in Ops |-> st.slot[i].tag], moves |-> <<>>,
         taken |-> t.taken,
         result |-> IF t.panic THEN Panic ELSE Ready(t.out)]

(* Join::poll as a fused future: once the slots have been emptied, a      *)
(* further call returns Poll::Pending.                                     *)
JoinPollBodyFused(s, p) ==
    LET st == JoinPollSlots([slot |-> s, polled |-> p, done |-> TRUE,
                             log |-> <<>>], 1)
    IN  IF st.done /\ \E i \in Ops : st.slot[i].tag # "Gone"
        THEN LET t == JoinTakeAll([slot |-> st.slot, out |-> <<>>,
                                   taken |-> <<>>, panic |-> FALSE], 1)
             IN  [slot |-> t.slot, polled |-> st.polled, log |-> st.log,
                  mid |-> [i \in Ops |-> st.slot[i].tag], moves |-> <<>>,
                  taken |-> t.taken,
                  result |-> IF t.panic THEN Panic ELSE Ready(t.out)]
        ELSE [slot |-> st.slot, polled |-> st.polled, log |-> st.log,
              mid |-> [i \in Ops |-> st.slot[i].tag], moves |-> <<>>,
              taken |-> <<>>, result |-> Pending]

(* Join::poll with done starting out false: the conjunction never becomes  *)
(* true and every call returns Poll::Pending.                              *)
JoinPollBodyDoneFalse(s, p) ==
    LET st == JoinPollSlots([slot |-> s, polled |-> p, done |-> FALSE,
                             log |-> <<>>], 1)
    IN  [slot |-> st.slot, polled |-> st.polled, log |-> st.log,
         mid |-> [i \in Ops |-> st.slot[i].tag], moves |-> <<>>,
         taken |-> <<>>, result |-> Pending]

(* The body of Join::poll on slots s with operand poll counts p.  mid is   *)
(* the slots' tags between the polls and the extraction; moves lists the   *)
(* operands the call moves: none, the slots are only reborrowed in place.  *)
JoinPollBody(s, p) ==
    LET st == JoinPollSlots([slot |-> s, polled |-> p, done |-> TRUE,
                             log |-> <<>>], 1)
    IN  IF st.done
        THEN LET t == JoinTakeAll([slot |-> st.slot, out |-> <<>>,
                                   taken |-> <<>>, panic |-> FALSE], 1)
             IN  [slot |-> t.slot, polled |-> st.polled, log |-> st.log,
                  mid |-> [i \in Ops |-> st.slot[i].tag], moves |-> <<>>,
                  taken |-> t.taken,
                  result |-> IF t.panic THEN Panic ELSE Ready(t.out)]
        ELSE [slot |-> st.slot, polled |-> st.polled, log |-> st.log,
              mid |-> [i \in Ops |-> st.slot[i].tag], moves |-> <<>>,
              taken |-> <<>>, result |-> Pending]

(* The driver polls the join future once.  pre is the slots' tags when     *)
(* the call starts.                                                        *)
JoinPoll ==
    /\ kind = "join"
    /\ Len(joinHist) < MaxCycles
    /\ \E b \in {JoinPollBody(slot, joinPolled)} :
           /\ slot' = b.slot
           /\ joinPolled' = b.polled
           /\ joinHist' = Append(joinHist,
                                 [pre    |-> [i \in Ops |-> slot[i].tag],
                                  moves  |-> b.moves,
                                  log    |-> b.log,
                                  mid    |-> b.mid,
                                  taken  |-> b.taken,
                                  result |-> b.result])
    /\ UNCHANGED <<N, need, val, kind, raceState, racePolled, raceHist,
                   sameState, samePolled, sameHist, slotHist>>

---------------------------------------------------------------------------
(* Race::race                                                              *)

(* The variant $Either::$Nth(x) of operand position i.                     *)
Either(i, x) == [tag |-> i, val |-> x]

(* The arm without its return: every operand is polled and the last one   *)
(* that is Ready decides the result.                                       *)
RaceArmNoReturn(st, i) ==
    LET r == OperandPoll(i, st.polled[i])
    IN  [polled |-> [st.polled EXCEPT ![i] = @ + 1],
         log    |-> Append(st.log, [op |-> i, res |-> r]),
         result |-> IF r.poll = "Ready"
                    THEN Ready(Either(i, r.out)) ELSE st.result]

(* One arm of the poll_fn closure: poll operand i and return from the      *)
(* closure if it is Ready.  Once the closure has returned, the arms after  *)
(* it do not run.                                                          *)
RaceArm(st, i) ==
    IF st.result.poll = "Ready"
    THEN st
    ELSE LET r == OperandPoll(i, st.polled[i])
         IN  [polled |-> [st.polled EXCEPT ![i] = @ + 1],
              log    |-> Append(st.log, [op |-> i, res |-> r]),
              result |-> IF r.poll = "Ready"
                         THEN Ready(Either(i, r.out)) ELSE Pending]

(* The closure with its arms in the reverse of declared order.             *)
RECURSIVE RacePollFnDown(_, _)
RacePollFnDown(st, i) ==
    IF i < 1 THEN st ELSE RacePollFnDown(RaceArm(st, i), i - 1)

RacePollFnReverse(st, i) == RacePollFnDown(st, N)

(* The closure with Poll::Pending returned after its first arm.            *)
RacePollFnFirstOnly(st, i) == RaceArm(st, i)

(* The closure without the arm of the last operand.                        *)
RECURSIVE RacePollFnButLast(_, _)
RacePollFnButLast(st, i) ==
    IF i >= N
    THEN st
    ELSE CHOOSE r \in {RacePollFnButLast(nx, i + 1) :
                           nx \in {RaceArm(st, i)}} : TRUE

(* The closure given to poll_fn: its arms from i on, then Poll::Pending.   *)
(* The state after one arm is bound to nx, which evaluates it once.        *)
RECURSIVE RacePollFn(_, _)
RacePollFn(st, i) ==
    IF i > N
    THEN st
    ELSE CHOOSE r \in {RacePollFn(nx, i + 1) :
                           nx \in {RaceArm(st, i)}} : TRUE

(* race as a future that runs the closure on every poll, also after it    *)
(* has returned Ready.                                                     *)
RaceResumeAgain(state, polled) ==
    LET st == RacePollFn([polled |-> polled, log |-> <<>>,
                          result |-> Pending], 1)
    IN  [state  |-> IF st.result.poll = "Ready"
                    THEN "Returned" ELSE "Suspend0",
         moves  |-> IF state = "Unresumed" THEN [i \in 1 .. N |-> i]
                    ELSE <<>>,
         polled |-> st.polled, log |-> st.log, result |-> st.result]

(* race with the operands pinned anew on every resumption: each poll       *)
(* moves them before it runs the closure.                                  *)
RaceResumeRepin(state, polled) ==
    IF state \in {"Unresumed", "Suspend0"}
    THEN LET st == RacePollFn([polled |-> polled, log |-> <<>>,
                               result |-> Pending], 1)
         IN  [state  |-> IF st.result.poll = "Ready"
                         THEN "Returned" ELSE "Suspend0",
              moves  |-> [i \in 1 .. N |-> i],
              polled |-> st.polled, log |-> st.log, result |-> st.result]
    ELSE [state |-> state, moves |-> <<>>, polled |-> polled, log |-> <<>>,
          result |-> Panic]

(* A poll of the future of async fn race at resume point state.  Before    *)
(* its first poll (Unresumed) it moves the operands into pinned locals and *)
(* awaits poll_fn; suspended at the await (Suspend0) it polls poll_fn      *)
(* again; having returned, it panics and polls nothing.  moves lists the   *)
(* operands moved, which the first poll does before it reaches poll_fn.    *)
RaceResume(state, polled) ==
    IF state \in {"Unresumed", "Suspend0"}
    THEN LET st == RacePollFn([polled |-> polled, log |-> <<>>,
                               result |-> Pending], 1)
         IN  [state  |-> IF st.result.poll = "Ready"
                         THEN "Returned" ELSE "Suspend0",
              moves  |-> IF state = "Unresumed" THEN [i \in 1 .. N |-> i]
                         ELSE <<>>,
              polled |-> st.polled, log |-> st.log, result |-> st.result]
    ELSE [state |-> state, moves |-> <<>>, polled |-> polled, log |-> <<>>,
          result |-> Panic]

(* The driver polls the race future once.                                  *)
RacePoll ==
    /\ kind = "race"
    /\ Len(raceHist) < MaxCycles
    /\ \E b \in {RaceResume(raceState, racePolled)} :
           /\ raceState' = b.state
           /\ racePolled' = b.polled
           /\ raceHist' = Append(raceHist,
                                 [pre |-> raceState, moves |-> b.moves,
                                  log |-> b.log, result |-> b.result])
    /\ UNCHANGED <<N, need, val, kind, slot, joinPolled, joinHist,
                   sameState, samePolled, sameHist, slotHist>>

---------------------------------------------------------------------------
(* RaceSame::race_same                                                     *)

(* The arm of race_same without its return.                                *)
RaceSameArmNoReturn(st, i) ==
    LET r == OperandPoll(i, st.polled[i])
    IN  [polled |-> [st.polled EXCEPT ![i] = @ + 1],
         log    |-> Append(st.log, [op |-> i, res |-> r]),
         result |-> IF r.poll = "Ready" THEN Ready(r.out) ELSE st.result]

(* One arm of the poll_fn closure of race_same.                            *)
RaceSameArm(st, i) ==
    IF st.result.poll = "Ready"
    THEN st
    ELSE LET r == OperandPoll(i, st.polled[i])
         IN  [polled |-> [st.polled EXCEPT ![i] = @ + 1],
              log    |-> Append(st.log, [op |-> i, res |-> r]),
              result |-> IF r.poll = "Ready" THEN Ready(r.out) ELSE Pending]

(* The closure given to poll_fn: its arms from i on, then Poll::Pending.   *)
RECURSIVE RaceSamePollFn(_, _)
RaceSamePollFn(st, i) ==
    IF i > N
    THEN st
    ELSE CHOOSE r \in {RaceSamePollFn(nx, i + 1) :
                           nx \in {RaceSameArm(st, i)}} : TRUE

(* A poll of the future of async fn race_same at resume point state.       *)
RaceSameResume(state, polled) ==
    IF state \in {"Unresumed", "Suspend0"}
    THEN LET st == RaceSamePollFn([polled |-> polled, log |-> <<>>,
                                   result |-> Pending], 1)
         IN  [state  |-> IF st.result.poll = "Ready"
                         THEN "Returned" ELSE "Suspend0",
              moves  |-> IF state = "Unresumed" THEN [i \in 1 .. N |-> i]
                         ELSE <<>>,
              polled |-> st.polled, log |-> st.log, result |-> st.result]
    ELSE [state |-> state, moves |-> <<>>, polled |-> polled, log |-> <<>>,
          result |-> Panic]

(* The driver polls the race_same future once.                             *)
RaceSamePoll ==
    /\ kind = "race"
    /\ Len(sameHist) < MaxCycles
    /\ \E b \in {RaceSameResume(sameState, samePolled)} :
           /\ sameState' = b.state
           /\ samePolled' = b.polled
           /\ sameHist' = Append(sameHist,
                                 [pre |-> sameState, moves |-> b.moves,
                                  log |-> b.log, result |-> b.result])
    /\ UNCHANGED <<N, need, val, kind, slot, joinPolled, joinHist,
                   raceState, racePolled, raceHist, slotHist>>

---------------------------------------------------------------------------
(* Init: Join::join has moved each operand into MaybeDone::Future; the     *)
(* async fns race and race_same have been called and not yet polled.       *)

Init ==
    /\ N \in MinArity .. MaxArity
    /\ need \in [1 .. N -> 0 .. MaxPolls]
    /\ val \in [1 .. N -> 1 .. MaxVal]
    /\ kind \in {"join", "race"}
    /\ slot = [i \in 1 .. N |-> Future]
    /\ joinPolled = [i \in 1 .. N |-> 0]
    /\ joinHist = <<>>
    /\ raceState = "Unresumed"
    /\ racePolled = [i \in 1 .. N |-> 0]
    /\ raceHist = <<>>
    /\ sameState = "Unresumed"
    /\ samePolled = [i \in 1 .. N |-> 0]
    /\ sameHist = <<>>
    /\ slotHist = <<>>

Next == JoinPoll \/ RacePoll \/ RaceSamePoll

Spec == Init /\ [][Next]_vars

---------------------------------------------------------------------------
(* The slot on its own: MaybeDone::poll and MaybeDone::take_output called  *)
(* in any order on the slots of a tuple of the smallest arity, calls that  *)
(* break take_output's precondition included.                              *)

(* A call of MaybeDone::poll on slot i.                                    *)
SlotAdvance(i) ==
    /\ kind = "slot"
    /\ Len(slotHist) < MaxCalls
    /\ LET m == MaybeDonePoll(slot[i], i, joinPolled[i])
       IN  /\ slot' = [slot EXCEPT ![i] = m.slot]
           /\ joinPolled' = [joinPolled EXCEPT ![i] = m.polled]
           /\ slotHist' = Append(slotHist,
                                 [call |-> "poll", op |-> i,
                                  pre |-> slot[i], post |-> m.slot,
                                  ret |-> m.ret, log |-> m.log])
    /\ UNCHANGED <<N, need, val, kind, joinHist, raceState, racePolled,
                   raceHist, sameState, samePolled, sameHist>>

(* A call of MaybeDone::take_output on slot i.  out holds the value        *)
(* returned, and is empty when the call panics.                            *)
SlotExtract(i) ==
    /\ kind = "slot"
    /\ Len(slotHist) < MaxCalls
    /\ LET t == take_output(slot[i])
       IN  /\ slot' = [slot EXCEPT ![i] = t.slot]
           /\ slotHist' = Append(slotHist,
                                 [call |-> "take_output", op |-> i,
                                  pre |-> slot[i], post |-> t.slot,
                                  panic |-> t.panic,
                                  out |-> IF t.panic THEN <<>>
                                          ELSE <<t.out>>])
    /\ UNCHANGED <<N, need, val, kind, joinPolled, joinHist, raceState,
                   racePolled, raceHist, sameState, samePolled, sameHist>>

SlotInit ==
    /\ N = MinArity
    /\ need \in [1 .. N -> 0 .. MaxPolls]
    /\ val \in [1 .. N -> 1 .. MaxVal]
    /\ kind = "slot"
    /\ slot = [i \in 1 .. N |-> Future]
    /\ joinPolled = [i \in 1 .. N |-> 0]
    /\ joinHist = <<>>
    /\ raceState = "Unresumed"
    /\ racePolled = [i \in 1 .. N |-> 0]
    /\ raceHist = <<>>
    /\ sameState = "Unresumed"
    /\ samePolled = [i \in 1 .. N |-> 0]
    /\ sameHist = <<>>
    /\ slotHist = <<>>

SlotNext ==
    \/ \E i \in Ops : SlotAdvance(i)
    \/ \E i \in Ops : SlotExtract(i)

SlotSpec == SlotInit /\ [][SlotNext]_vars

---------------------------------------------------------------------------
(* A driver that polls again whenever the combined future was Pending.     *)

JoinLiveInit == Init /\ kind = "join"

(* The driver polls a join that has not been polled or was Pending.        *)
JoinRepoll ==
    /\ joinHist = <<>> \/ joinHist[Len(joinHist)].result.poll = "Pending"
    /\ JoinPoll

JoinLiveSpec == JoinLiveInit /\ [][JoinPoll]_vars /\ WF_vars(JoinRepoll)

RaceLiveInit == Init /\ kind = "race"

(* The driver polls a race that has not been polled or was Pending.        *)
RaceRepoll ==
    /\ raceState # "Returned"
    /\ RacePoll

(* The driver polls a race_same that has not been polled or was Pending.   *)
RaceSameRepoll ==
    /\ sameState # "Returned"
    /\ RaceSamePoll

RaceLiveSpec ==
    /\ RaceLiveInit
    /\ [][RacePoll \/ RaceSamePoll]_vars
    /\ WF_vars(RaceRepoll)
    /\ WF_vars(RaceSameRepoll)

---------------------------------------------------------------------------
(* Reading the histories.  h is one record of joinHist, raceHist or        *)
(* sameHist; H is one of these histories.                                  *)

\* The positions in h.log of the polls of operand i.
PollsOf(h, i) == {k \in 1 .. Len(h.log) : h.log[k].op = i}

\* Operand i returned Ready during the cycle h.
ReadyIn(h, i) == \E k \in PollsOf(h, i) : h.log[k].res.poll = "Ready"

\* Operand i has returned Ready in cycle c of H or before it.
ReadyBy(H, c, i) == \E d \in 1 .. c : ReadyIn(H[d], i)

\* The cycle of H in which operand i returned Ready first, 0 if none yet.
ReadyCycle(H, i) ==
    IF \E d \in 1 .. Len(H) : ReadyIn(H[d], i)
    THEN CHOOSE d \in 1 .. Len(H) :
             /\ ReadyIn(H[d], i)
             /\ \A e \in 1 .. d - 1 : ~ReadyIn(H[e], i)
    ELSE 0

\* How often operand i was polled before cycle c of H.
RECURSIVE PolledBefore(_, _, _)
PolledBefore(H, c, i) ==
    IF c <= 1 THEN 0
    ELSE PolledBefore(H, c - 1, i) + Cardinality(PollsOf(H[c - 1], i))

\* H reported Ready in a cycle before c.
CompletedBefore(H, c) == \E d \in 1 .. c - 1 : H[d].result.poll = "Ready"

\* The operands that would return Ready if polled in cycle c of H.
WouldBeReady(H, c) ==
    {i \in Ops : OperandPoll(i, PolledBefore(H, c, i)).poll = "Ready"}

\* The least element of a non-empty set of operand positions.
Lowest(S) == CHOOSE i \in S : \A j \in S : i <= j

---------------------------------------------------------------------------
\* C1 (join order): whenever a call of Join::poll returns Ready, the tuple
\* has N elements and its i-th element is the value operand i returned from
\* its own Ready poll, whatever the order in which the operands completed.
JoinOrder ==
    \A c \in 1 .. Len(joinHist) :
        joinHist[c].result.poll = "Ready" =>
            /\ Len(joinHist[c].result.out) = N
            /\ \A i \in Ops :
                  /\ ReadyBy(joinHist, c, i)
                  /\ \A d \in 1 .. c : \A k \in PollsOf(joinHist[d], i) :
                        joinHist[d].log[k].res.poll = "Ready" =>
                            joinHist[c].result.out[i]
                                = joinHist[d].log[k].res.out

\* C1 witness: a join has returned Ready although a later-declared operand
\* completed in an earlier cycle than an earlier-declared one with another
\* output.
JoinOrderWitness ==
    \E c \in 1 .. Len(joinHist) : \E i, j \in Ops :
        /\ joinHist[c].result.poll = "Ready"
        /\ i < j
        /\ ReadyCycle(joinHist, j) < ReadyCycle(joinHist, i)
        /\ val[i] # val[j]

\* C2 (join completeness): a call of Join::poll returns Pending exactly
\* when some operand has not returned Ready by the end of that call, and
\* for every call made while the join has not yet completed it returns
\* Ready exactly when every operand has returned Ready in that call or an
\* earlier one.
JoinCompleteness ==
    \A c \in 1 .. Len(joinHist) :
        LET all == \A i \in Ops : ReadyBy(joinHist, c, i)
        IN  /\ joinHist[c].result.poll = "Pending" <=> ~all
            /\ joinHist[c].result.poll = "Ready"
                   <=> (all /\ ~CompletedBefore(joinHist, c))

\* C2 witness: a join was Pending on its first cycle, with some operand
\* already Ready, and Ready on its second.
JoinCompletenessWitness ==
    /\ Len(joinHist) >= 2
    /\ joinHist[1].result.poll = "Pending"
    /\ \E i \in Ops : ReadyIn(joinHist[1], i)
    /\ joinHist[2].result.poll = "Ready"

\* C3 (race tie-break): in every cycle of race and of race_same in which
\* two or more operands would return Ready, the result is that of the
\* lowest-declared of them: for race its variant with its output, for
\* race_same its bare output.
RaceTieBreak ==
    /\ \A c \in 1 .. Len(raceHist) :
          LET W == WouldBeReady(raceHist, c)
          IN  (raceHist[c].pre # "Returned" /\ Cardinality(W) >= 2) =>
                  raceHist[c].result
                      = Ready(Either(Lowest(W), val[Lowest(W)]))
    /\ \A c \in 1 .. Len(sameHist) :
          LET W == WouldBeReady(sameHist, c)
          IN  (sameHist[c].pre # "Returned" /\ Cardinality(W) >= 2) =>
                  sameHist[c].result = Ready(val[Lowest(W)])

\* C3 witness: race and race_same have each completed in a cycle after
\* the first in which two operands with different outputs, neither of them
\* the first operand, would both return Ready.
RaceTieBreakWitness ==
    /\ \E c \in 2 .. Len(raceHist) : \E i, j \in WouldBeReady(raceHist, c) :
          /\ raceHist[c].result.poll = "Ready"
          /\ 1 < i /\ i < j /\ val[i] # val[j]
    /\ \E c \in 2 .. Len(sameHist) : \E i, j \in WouldBeReady(sameHist, c) :
          /\ sameHist[c].result.poll = "Ready"
          /\ 1 < i /\ i < j /\ val[i] # val[j]

\* C4 (race single resolution): after a poll of race or of race_same has
\* returned Ready, no later poll of that future polls any operand.
RaceSingleResolution ==
    /\ \A c \in 1 .. Len(raceHist) :
          CompletedBefore(raceHist, c) => raceHist[c].log = <<>>
    /\ \A c \in 1 .. Len(sameHist) :
          CompletedBefore(sameHist, c) => sameHist[c].log = <<>>

\* C4 witness: the driver has polled race and race_same twice more after
\* each returned Ready on a cycle that left a loser Pending.
RaceSingleResolutionWitness ==
    /\ \E c \in 1 .. Len(raceHist) :
          /\ raceHist[c].result.poll = "Ready"
          /\ \E k \in 1 .. Len(raceHist[c].log) :
                raceHist[c].log[k].res.poll = "Pending"
          /\ Len(raceHist) >= c + 2
    /\ \E c \in 1 .. Len(sameHist) :
          /\ sameHist[c].result.poll = "Ready"
          /\ \E k \in 1 .. Len(sameHist[c].log) :
                sameHist[c].log[k].res.poll = "Pending"
          /\ Len(sameHist) >= c + 2

\* C5 (race promptness): in every cycle of race (race_same), an operand
\* poll that returns Ready makes the cycle return Ready with that operand's
\* variant and output (its bare output), and the cycle returns Pending
\* exactly when all N operands were polled in it and all returned Pending.
RacePromptness ==
    /\ \A c \in 1 .. Len(raceHist) :
          LET h == raceHist[c]
          IN  /\ \A k \in 1 .. Len(h.log) :
                    h.log[k].res.poll = "Ready" =>
                        h.result = Ready(Either(h.log[k].op, h.log[k].res.out))
              /\ h.result.poll = "Pending" <=>
                    /\ \A i \in Ops : PollsOf(h, i) # {}
                    /\ \A k \in 1 .. Len(h.log) : h.log[k].res.poll = "Pending"
    /\ \A c \in 1 .. Len(sameHist) :
          LET h == sameHist[c]
          IN  /\ \A k \in 1 .. Len(h.log) :
                    h.log[k].res.poll = "Ready" =>
                        h.result = Ready(h.log[k].res.out)
              /\ h.result.poll = "Pending" <=>
                    /\ \A i \in Ops : PollsOf(h, i) # {}
                    /\ \A k \in 1 .. Len(h.log) : h.log[k].res.poll = "Pending"

\* C5 witness: on cycle 1 of a race operand 1 was Pending and operand 2
\* Ready with 2, and the race returned the Second variant carrying 2.
RacePromptnessWitness ==
    /\ Len(raceHist) >= 1
    /\ raceHist[1].log = <<[op |-> 1, res |-> Pending],
                           [op |-> 2, res |-> Ready(2)]>>
    /\ raceHist[1].result = Ready(Either(2, 2))

\* The result of race with the positional tag removed.
EraseTag(r) == IF r.poll = "Ready" THEN Ready(r.out.val) ELSE r

\* C6 (race_same is race with the tag erased): on equal operand tuples,
\* the c-th poll of race_same starts from the same resume point as the
\* c-th poll of race, polls the same operands in the same order with the
\* same results, and returns what race returns with the tag removed.
RaceSameIsRaceErased ==
    \A c \in 1 .. Len(raceHist) :
        c <= Len(sameHist) =>
            /\ sameHist[c].pre = raceHist[c].pre
            /\ sameHist[c].log = raceHist[c].log
            /\ sameHist[c].result = EraseTag(raceHist[c].result)

\* C6 witness: race and race_same have both completed on their second
\* cycle, won by an operand other than the first.
RaceSameIsRaceErasedWitness ==
    /\ Len(raceHist) >= 2 /\ Len(sameHist) >= 2
    /\ raceHist[2].result.poll = "Ready"
    /\ raceHist[2].result.out.tag > 1
    /\ sameHist[2].result.poll = "Ready"

\* C7 (join never re-polls a finished operand): in the polls a join has
\* made, a poll of operand i that returned Ready is the last poll of
\* operand i: none follows in the same cycle or in any later cycle.
JoinNoRepoll ==
    \A c \in 1 .. Len(joinHist) : \A k \in 1 .. Len(joinHist[c].log) :
        joinHist[c].log[k].res.poll = "Ready" =>
            LET i == joinHist[c].log[k].op
            IN  /\ \A m \in PollsOf(joinHist[c], i) : m <= k
                /\ \A d \in c + 1 .. Len(joinHist) :
                      PollsOf(joinHist[d], i) = {}

\* C7 witness: an operand returned Ready in cycle 1 and the join stayed
\* Pending, polling other operands, for two further cycles.
JoinNoRepollWitness ==
    /\ Len(joinHist) >= 3
    /\ \E i \in Ops : ReadyIn(joinHist[1], i)
    /\ joinHist[2].result.poll = "Pending"
    /\ joinHist[3].result.poll = "Pending"
    /\ joinHist[3].log # <<>>

\* The cycles and tuple positions at which slot i's output was extracted.
Extractions(i) ==
    {x \in (1 .. Len(joinHist)) \X Ops :
        /\ x[2] <= Len(joinHist[x[1]].taken)
        /\ joinHist[x[1]].taken[x[2]] = i}

\* C8 (no double consumption): over all polls of a join, those after it
\* returned Ready included, each slot's output is extracted at most once
\* and at most one poll returns Ready.
JoinNoDoubleConsumption ==
    /\ \A i \in Ops : Cardinality(Extractions(i)) <= 1
    /\ Cardinality({c \in 1 .. Len(joinHist) :
                       joinHist[c].result.poll = "Ready"}) <= 1

\* C8 witness: a join returned Ready, every slot's output having been
\* extracted, and was polled twice more.
JoinNoDoubleConsumptionWitness ==
    \E c \in 1 .. Len(joinHist) :
        /\ joinHist[c].result.poll = "Ready"
        /\ \A i \in Ops : Cardinality(Extractions(i)) = 1
        /\ Len(joinHist) >= c + 2

\* C9 (join cycle exhaustive and ordered): in every call of Join::poll the
\* operands polled are exactly those whose slot was Future when the call
\* started, each once, in strictly increasing declared order.
JoinCycleExhaustive ==
    \A c \in 1 .. Len(joinHist) :
        LET h == joinHist[c]
        IN  /\ \A i \in Ops :
                  Cardinality(PollsOf(h, i))
                      = (IF h.pre[i] = "Future" THEN 1 ELSE 0)
            /\ \A k, m \in 1 .. Len(h.log) :
                  k < m => h.log[k].op < h.log[m].op

\* C9 witness: in one cycle after the first, a slot that had finished was
\* skipped, an earlier slot stayed Pending, and a later slot was still
\* polled; in another an earlier slot finished and a later one was polled.
JoinCycleExhaustiveWitness ==
    /\ \E c \in 2 .. Len(joinHist) : \E i, j, l \in Ops :
          /\ joinHist[c].pre[l] = "Done"
          /\ i < j
          /\ PollsOf(joinHist[c], i) # {} /\ ~ReadyIn(joinHist[c], i)
          /\ PollsOf(joinHist[c], j) # {}
    /\ \E c \in 1 .. Len(joinHist) : \E i, j \in Ops :
          /\ i < j
          /\ ReadyIn(joinHist[c], i)
          /\ PollsOf(joinHist[c], j) # {} /\ ~ReadyIn(joinHist[c], j)

\* The polls of one cycle h start at the first operand, go up one operand
\* at a time, and end at the first Ready or after operand N.
StopsAtWinner(h) ==
    /\ \A k \in 1 .. Len(h.log) :
          /\ h.log[k].op = k
          /\ h.log[k].res.poll = "Ready" => k = Len(h.log)
    /\ h.pre # "Returned" =>
          /\ Len(h.log) >= 1
          /\ Len(h.log) <= N
          /\ Len(h.log) < N => h.log[Len(h.log)].res.poll = "Ready"

\* C10 (race cycle stops at the winner): every cycle of race and of
\* race_same polls operands 1, 2, ... in declared order, each at most
\* once, and stops at the first that returns Ready: every operand before the
\* winner was polled and returned Pending, none after it is polled.
RaceStopsAtWinner ==
    /\ \A c \in 1 .. Len(raceHist) : StopsAtWinner(raceHist[c])
    /\ \A c \in 1 .. Len(sameHist) : StopsAtWinner(sameHist[c])

\* C10 witness: race and race_same each had a cycle after the first that
\* was won by operand 2 of three while operand 3 would also have returned
\* Ready and was not polled.
RaceStopsAtWinnerWitness ==
    /\ N = 3
    /\ \E c \in 2 .. Len(raceHist) :
          /\ Len(raceHist[c].log) = 2
          /\ 3 \in WouldBeReady(raceHist, c)
    /\ \E c \in 2 .. Len(sameHist) :
          /\ Len(sameHist[c].log) = 2
          /\ 3 \in WouldBeReady(sameHist, c)

\* The largest number of polls any operand needs.
MaxNeed == CHOOSE m \in {need[i] : i \in Ops} : \A i \in Ops : need[i] <= m

\* How often operand i has been polled in all cycles of H.
PolledIn(H, i) == PolledBefore(H, Len(H) + 1, i)

\* C11 (join schedule): for the join of (first, second) where first is
\* Pending once and then Ready(1) and second is Ready(2) at once, cycle 1
\* polls both, first Pending and second Ready, and returns Pending; cycle 2
\* polls first only and returns Ready((1, 2)).  In general, when operand i
\* needs need[i] polls, the join returns Ready exactly on cycle MaxNeed and
\* operand i is polled need[i] times in all (fewer only while the join has
\* had fewer cycles than that).
JoinSchedule ==
    /\ (N = 2 /\ need[1] = 2 /\ need[2] = 1 /\ val[1] = 1 /\ val[2] = 2) =>
          /\ Len(joinHist) >= 1 =>
                /\ joinHist[1].log = <<[op |-> 1, res |-> Pending],
                                       [op |-> 2, res |-> Ready(2)]>>
                /\ joinHist[1].result = Pending
          /\ Len(joinHist) >= 2 =>
                /\ joinHist[2].log = <<[op |-> 1, res |-> Ready(1)]>>
                /\ joinHist[2].result = Ready(<<1, 2>>)
    /\ (\A i \in Ops : need[i] > 0) =>
          /\ \A c \in 1 .. Len(joinHist) :
                joinHist[c].result.poll = "Ready" <=> c = MaxNeed
          /\ \A i \in Ops :
                PolledIn(joinHist, i)
                    = (IF Len(joinHist) < need[i]
                       THEN Len(joinHist) ELSE need[i])

\* C11 witness: the join of the scenario has had its two cycles and has
\* returned Ready((1, 2)), each operand polled as often as it needs.
JoinScheduleWitness ==
    /\ N = 2 /\ need[1] = 2 /\ need[2] = 1 /\ val[1] = 1 /\ val[2] = 2
    /\ Len(joinHist) = 2
    /\ joinHist[2].result = Ready(<<1, 2>>)
    /\ PolledIn(joinHist, 1) = 2 /\ PolledIn(joinHist, 2) = 1

\* What a cycle h did with the operand outputs left out: which operands it
\* polled, in which order, whether each was Ready, and the kind of result.
Shape(h) ==
    [polls  |-> [k \in 1 .. Len(h.log) |->
                    <<h.log[k].op, h.log[k].res.poll>>],
     result |-> h.result.poll]

\* The operands a join is still waiting for when cycle c starts, in
\* declared order, as the readiness schedule alone gives them.
AwaitedIn(c) ==
    LET awaited(i) == need[i] = 0 \/ need[i] >= c
    IN  SelectSeq([i \in 1 .. N |-> i], awaited)

\* The shape of cycle c of a join as the readiness schedule alone gives it.
ScheduledShape(c) ==
    LET ops == AwaitedIn(c)
    IN  [polls  |-> [k \in 1 .. Len(ops) |->
                        <<ops[k], IF need[ops[k]] = c
                                  THEN "Ready" ELSE "Pending">>],
         result |-> IF \E i \in Ops : need[i] = 0 \/ need[i] > c
                    THEN "Pending"
                    ELSE IF c = MaxNeed THEN "Ready" ELSE "Panic"]

\* C12 (join does not short-circuit on outputs): the operand polls of every
\* cycle of a join and the cycle on which it returns Ready are those given
\* by the readiness schedule need alone, so two runs that differ only in
\* the outputs val poll alike and complete on the same cycle; and a join
\* returns Ready only when every operand has returned Ready.
JoinValueBlind ==
    \A c \in 1 .. Len(joinHist) :
        /\ Shape(joinHist[c]) = ScheduledShape(c)
        /\ joinHist[c].result.poll = "Ready" =>
              \A i \in Ops : ReadyBy(joinHist, c, i)

\* C12 witness: operand 1 returned the output 1 in the first cycle, the
\* join went on to poll operand 2 in that cycle and in the next, and then
\* returned Ready.
JoinValueBlindWitness ==
    /\ Len(joinHist) >= 2
    /\ val[1] = 1 /\ val[2] # 1
    /\ ReadyIn(joinHist[1], 1)
    /\ PollsOf(joinHist[1], 2) # {}
    /\ ReadyIn(joinHist[2], 2)
    /\ joinHist[2].result.poll = "Ready"

\* In the history H, a poll of the combined future moves an operand only
\* if no earlier poll of it has polled that operand.  Within one poll the
\* moves come before the operand polls.
MovesBeforePolls(H) ==
    \A c \in 1 .. Len(H) : \A k \in 1 .. Len(H[c].moves) :
        PolledBefore(H, c, H[c].moves[k]) = 0

Rank(tag) == CASE tag = "Future" -> 0 [] tag = "Done" -> 1 [] tag = "Gone" -> 2

\* The calls made on slot i, as positions in slotHist.
CallsOn(i) == {k \in 1 .. Len(slotHist) : slotHist[k].op = i}

\* C14 (slot lifecycle is monotone): over any sequence of calls of
\* MaybeDone::poll and MaybeDone::take_output, each call starts from the
\* variant the last call on that slot left (Future at first), no call moves
\* a slot backwards on the path Future, Done, Gone or from Future straight
\* to Gone, and each variant is entered at most once.
SlotMonotone ==
    /\ \A k \in 1 .. Len(slotHist) :
          LET h == slotHist[k]
              earlier == {j \in CallsOn(h.op) : j < k}
          IN  /\ h.pre = IF earlier = {} THEN Future
                         ELSE slotHist[CHOOSE j \in earlier :
                                          \A l \in earlier : l <= j].post
              /\ Rank(h.pre.tag) <= Rank(h.post.tag)
              /\ ~(h.pre.tag = "Future" /\ h.post.tag = "Gone")
    /\ \A i \in Ops : \A tag \in {"Future", "Done", "Gone"} :
          Cardinality({k \in CallsOn(i) :
                          /\ slotHist[k].pre.tag # tag
                          /\ slotHist[k].post.tag = tag}) <= 1

\* C14 witness: a slot has gone from Future to Done and from Done to Gone
\* and has then been polled and extracted from again.
SlotMonotoneWitness ==
    \E i \in Ops : \E a, b, c, d \in CallsOn(i) :
        /\ a < b /\ b < c /\ b < d
        /\ slotHist[a].pre.tag = "Future" /\ slotHist[a].post.tag = "Done"
        /\ slotHist[b].pre.tag = "Done" /\ slotHist[b].post.tag = "Gone"
        /\ slotHist[c].call = "poll"
        /\ slotHist[d].call = "take_output"

\* C16 (extraction contract): a call of MaybeDone::take_output on a Done
\* slot returns the stored value and leaves the slot Gone; on a Future or
\* Gone slot it panics, returns nothing and leaves the slot as it was.
SlotExtractContract ==
    \A k \in 1 .. Len(slotHist) :
        LET h == slotHist[k]
        IN  h.call = "take_output" =>
                IF h.pre.tag = "Done"
                THEN ~h.panic /\ h.out = <<h.pre.out>> /\ h.post = Gone
                ELSE h.panic /\ h.out = <<>> /\ h.post = h.pre

\* C16 witness: take_output has been called on a Future slot, on a Done
\* slot and on a Gone slot.
SlotExtractContractWitness ==
    \A tag \in {"Future", "Done", "Gone"} :
        \E k \in 1 .. Len(slotHist) :
            slotHist[k].call = "take_output" /\ slotHist[k].pre.tag = tag

\* C17 (advance contract): a call of MaybeDone::poll returns false exactly
\* when the slot was Future and its operand returned Pending, and then the
\* slot stays Future; when the operand returned Ready(v) the slot becomes
\* Done(v) and the call returns true; on a Done or Gone slot the call
\* returns true, polls no operand and leaves the slot as it was.
SlotAdvanceContract ==
    \A k \in 1 .. Len(slotHist) :
        LET h == slotHist[k]
        IN  h.call = "poll" =>
                /\ h.ret = FALSE <=>
                      /\ h.pre.tag = "Future"
                      /\ h.log = <<[op |-> h.op, res |-> Pending]>>
                /\ h.ret = FALSE => h.post = h.pre
                /\ h.pre.tag = "Future" =>
                      /\ Len(h.log) = 1
                      /\ h.log[1].op = h.op
                      /\ h.log[1].res.poll = "Ready" =>
                            h.post = Done(h.log[1].res.out) /\ h.ret = TRUE
                /\ h.pre.tag # "Future" =>
                      h.ret = TRUE /\ h.log = <<>> /\ h.post = h.pre

\* C17 witness: MaybeDone::poll has been called on a Future slot whose
\* operand was Pending, on one whose operand was Ready, on a Done slot and
\* on a Gone slot.
SlotAdvanceContractWitness ==
    /\ \E k \in 1 .. Len(slotHist) :
          slotHist[k].call = "poll" /\ slotHist[k].ret = FALSE
    /\ \E k \in 1 .. Len(slotHist) :
          /\ slotHist[k].call = "poll"
          /\ slotHist[k].pre.tag = "Future" /\ slotHist[k].post.tag = "Done"
    /\ \A tag \in {"Done", "Gone"} :
          \E k \in 1 .. Len(slotHist) :
              slotHist[k].call = "poll" /\ slotHist[k].pre.tag = tag

\* C15 as stated (the poll step never sees Gone): in every call of
\* Join::poll, every slot MaybeDone::poll is called on, which is every
\* slot, is Future or Done when the call starts.  A call made after the
\* join has returned Ready finds the slots Gone.
JoinPollNeverSeesGone ==
    \A c \in 1 .. Len(joinHist) : \A i \in Ops :
        joinHist[c].pre[i] \in {"Future", "Done"}

\* C15 as amended (the poll step sees Gone only after completion): in
\* every call of Join::poll made while the join has not yet returned Ready,
\* every slot MaybeDone::poll is called on is Future or Done; the slots are
\* Gone at the start of a call exactly when the join has already returned
\* Ready.  Gone comes from the extraction alone, which yields values in one
\* call only, with every slot Done after the polls of that call, and
\* empties all slots in declared order.
JoinPollSeesNoGone ==
    /\ \A c \in 1 .. Len(joinHist) :
          /\ \A i \in Ops :
                joinHist[c].pre[i] = "Gone" <=> CompletedBefore(joinHist, c)
          /\ joinHist[c].taken # <<>> =>
                /\ \A i \in Ops : joinHist[c].mid[i] = "Done"
                /\ joinHist[c].taken = [i \in 1 .. N |-> i]
    /\ Cardinality({c \in 1 .. Len(joinHist) :
                       joinHist[c].taken # <<>>}) <= 1
    /\ \A i \in Ops :
          (kind = "join" /\ slot[i].tag = "Gone") => Extractions(i) # {}

\* C15 witness: a join has been polled with one slot already Done and
\* another still Future, and has returned Ready, emptying its slots, in a
\* later call.
JoinPollSeesNoGoneWitness ==
    \E c, d \in 1 .. Len(joinHist) : \E i, j \in Ops :
        /\ c <= d
        /\ joinHist[c].pre[i] = "Done"
        /\ joinHist[c].pre[j] = "Future"
        /\ joinHist[d].result.poll = "Ready"
        /\ \A l \in Ops : slot[l].tag = "Gone"

\* C18 (polling a completed join is fatal): a call of Join::poll made after
\* the join has returned Ready panics: it returns neither Ready nor
\* Pending, polls no operand, extracts nothing and leaves the slots Gone.
JoinRepollFatal ==
    \A c \in 1 .. Len(joinHist) :
        CompletedBefore(joinHist, c) =>
            /\ joinHist[c].result = Panic
            /\ joinHist[c].log = <<>>
            /\ joinHist[c].taken = <<>>
            /\ \A i \in Ops : joinHist[c].mid[i] = "Gone"

\* C18 witness: a join of three operands returned Ready after a Pending
\* cycle and has been polled twice since.
JoinRepollFatalWitness ==
    /\ N = 3
    /\ Len(joinHist) = 4
    /\ joinHist[1].result.poll = "Pending"
    /\ joinHist[2].result.poll = "Ready"
    /\ joinHist[4].result.poll = "Panic"

\* C19 (join liveness): when every operand returns Ready after finitely
\* many polls and the driver polls again whenever the join was Pending, the
\* join returns Ready, and does so within MaxNeed cycles: operands that
\* finished in earlier cycles need no further polls.
JoinLiveness ==
    (kind = "join" /\ \A i \in Ops : need[i] > 0)
        ~> (\E c \in 1 .. Len(joinHist) :
               c <= MaxNeed /\ joinHist[c].result.poll = "Ready")

\* C19 witness: a join whose operands need different numbers of polls was
\* Pending on its first cycle and returned Ready on its second.
JoinLivenessWitness ==
    /\ \A i \in Ops : need[i] > 0
    /\ \E i, j \in Ops : need[i] < need[j]
    /\ Len(joinHist) >= 2
    /\ joinHist[1].result.poll = "Pending"
    /\ joinHist[2].result.poll = "Ready"

\* The smallest number of polls after which some operand returns Ready, and
\* 0 when no operand ever does.
MinNeed ==
    IF \A i \in Ops : need[i] = 0
    THEN 0
    ELSE CHOOSE m \in {need[i] : i \in Ops} \ {0} :
             \A i \in Ops : need[i] > 0 => m <= need[i]

\* C20 (race liveness): when some operand returns Ready after finitely
\* many polls and the driver polls again whenever the future was Pending,
\* race and race_same return Ready, within MinNeed cycles, also when every
\* operand declared before that one stays Pending for ever.
RaceLiveness ==
    (kind = "race" /\ \E i \in Ops : need[i] > 0)
        ~> /\ \E c \in 1 .. Len(raceHist) :
                 c <= MinNeed /\ raceHist[c].result.poll = "Ready"
           /\ \E c \in 1 .. Len(sameHist) :
                 c <= MinNeed /\ sameHist[c].result.poll = "Ready"

\* C20 witness: race and race_same, whose operands before the last never
\* return Ready, were Pending on the first cycle and were won by the last
\* operand on the second.
RaceLivenessWitness ==
    /\ \A i \in 1 .. N - 1 : need[i] = 0
    /\ Len(raceHist) >= 2 /\ Len(sameHist) >= 2
    /\ raceHist[1].result.poll = "Pending"
    /\ raceHist[2].result = Ready(Either(N, val[N]))
    /\ sameHist[2].result = Ready(val[N])

====
